---- MODULE Spec2Model ----
(***************************************************************************)
(* Control-frame link of EIE3360_2526_ControlCommand.                      *)
(*   transmitter.py : build_packet (frame encoder)                         *)
(*                    motor, servo (calls that remember the last values)   *)
(*   lib3360.py     : send_control (one call, all six values)              *)
(*   receiver.py    : parse_frame (frame decoder) and main_listen_loop     *)
(*                    (the receive loop that scans the serial stream)      *)
(* Bytes are integers 0..255, byte strings are sequences of bytes.         *)
(* Python indices are 0-based; TLA+ sequences are 1-based, so Python's     *)
(* b[i] is b[i+1] here.                                                    *)
(***************************************************************************)
EXTENDS Integers, Sequences, FiniteSets, TLC

VARIABLES
    input,      \* the byte stream the serial line delivers to the receiver
    sizes,      \* the chunk lengths ser.read(64) returns in this run
    pos,        \* number of bytes of input already returned by ser.read
    buf,        \* receiver.py: buf, the accumulation buffer
    emitted,    \* receiver.py: what the loop reported, one entry per candidate
    last,       \* the branch the last loop iteration ended in
    cleared,    \* how many times the flood guard cleared buf
    ends,       \* for each entry of emitted, the stream offset just past its candidate
    cin,        \* codec: the arguments of a build_packet call
    craw,       \* codec: a byte string handed to parse_frame directly
    cframe,     \* codec: the outcome of build_packet(cin)
    cdec,       \* codec: the outcome of the last parse_frame call
    TxState,    \* transmitter.py: STATE, the module-level remembered values
    given,      \* the latest non-None value an accepted call passed for each field
    written,    \* the frames handed to ser.write, in order
    tloop,      \* the frame send_control_loop is repeating, <<>> when none
    tcall,      \* the last motor / servo / send_control call and how it ended
    ncalls      \* number of calls made

vars == <<input, sizes, pos, buf, emitted, last, cleared, ends,
          cin, craw, cframe, cdec,
          TxState, given, written, tloop, tcall, ncalls>>

rxvars == <<input, sizes, pos, buf, emitted, last, cleared, ends>>
codecvars == <<cin, craw, cframe, cdec>>
txvars == <<TxState, given, written, tloop, tcall, ncalls>>

(***************************************************************************)
(* Python primitives used by the code                                      *)
(***************************************************************************)
Min(a, b) == IF a <= b THEN a ELSE b
Max(a, b) == IF a >= b THEN a ELSE b

\* A slice bound normalised the way Python does for a sequence of length n:
\* a negative bound counts from the end, and the result is clamped to 0..n.
PyBound(i, n) == IF i < 0 THEN Max(i + n, 0) ELSE Min(i, n)

\* s[lo:hi]
PySlice(s, lo, hi) ==
    LET l == PyBound(lo, Len(s))
        h == PyBound(hi, Len(s))
    IN  IF h <= l THEN <<>> ELSE SubSeq(s, l + 1, h)

PyFind_Last(s, pat) ==
    LET At(i) == \A j \in 1..Len(pat) : s[i + j] = pat[j]
        Cand == 0..(Len(s) - Len(pat))
    IN  IF \E i \in Cand : At(i)
        THEN CHOOSE i \in Cand : At(i) /\ \A j \in (i + 1)..(Len(s) - Len(pat)) : ~At(j)
        ELSE -1

\* s.find(pat): the lowest 0-based index where pat occurs in s, or -1.
PyFind(s, pat) ==
    LET At(i) == \A j \in 1..Len(pat) : s[i + j] = pat[j]
        Cand == 0..(Len(s) - Len(pat))
    IN  IF \E i \in Cand : At(i)
        THEN CHOOSE i \in Cand : At(i) /\ \A j \in 0..(i - 1) : ~At(j)
        ELSE -1

\* s.endswith(suffix)
PyEndsWith(s, suffix) ==
    /\ Len(s) >= Len(suffix)
    /\ SubSeq(s, Len(s) - Len(suffix) + 1, Len(s)) = suffix

\* x & 1 for a Python int of any sign (two's complement of unbounded width).
PyAnd1(x) == x % 2

\* x & 2 for a byte x.
PyAnd2(x) == 2 * ((x \div 2) % 2)

\* bool(x): Python's bool is an int subclass, True == 1 and False == 0.
PyBool(x) == IF x # 0 THEN 1 ELSE 0

PackU16BE_LittleEndian(v) == <<v % 256, v \div 256>>

\* struct.pack('>H', v) for 0 <= v <= 0xFFFF: high byte first.
PackU16BE(v) == <<v \div 256, v % 256>>

\* struct.unpack('>H', b)
UnpackU16BE(b) == b[1] * 256 + b[2]

(***************************************************************************)
(* Frame layout                                                            *)
(***************************************************************************)
FRAME_HEADER == <<13>>
FRAME_FOOTER == <<32>>
PayloadLen == 9
frame_len == Len(FRAME_HEADER) + PayloadLen + Len(FRAME_FOOTER)

(***************************************************************************)
(* transmitter.py: build_packet                                            *)
(***************************************************************************)
InRangeU16_Strict(v) == 0 <= v /\ v < 65535

\* isinstance(v, int) and 0 <= v <= 0xFFFF (every value here is an int)
InRangeU16(v) == 0 <= v /\ v <= 65535

DirByte_Shift2(d1, d2) == d1 + 4 * d2

\* (d1) | (d2 << 1) for d1, d2 in {0, 1}
DirByte(d1, d2) == d1 + 2 * d2

\* build_packet(m1, m2, s1, s2, dir_m1_flag, dir_m2_flag): the frame, or the
\* ValueError raised before anything is built.
build_packet(m1, m2, s1, s2, dir_m1_flag, dir_m2_flag) ==
    IF ~(\A v \in {m1, m2, s1, s2} : InRangeU16(v))
    THEN [ok |-> FALSE, err |-> "ValueError", frame |-> <<>>]
    ELSE LET d1 == IF PyAnd1(dir_m1_flag) # 0 THEN 1 ELSE 0
             d2 == IF PyAnd1(dir_m2_flag) # 0 THEN 1 ELSE 0
             dir_byte == DirByte(d1, d2)
             payload == PackU16BE(m1) \o PackU16BE(m2) \o PackU16BE(s1)
                        \o PackU16BE(s2) \o <<dir_byte>>
         IN  [ok |-> TRUE, err |-> "", frame |-> FRAME_HEADER \o payload \o FRAME_FOOTER]

(***************************************************************************)
(* receiver.py: parse_frame                                                *)
(***************************************************************************)
FramePayload_NoFooterCut(frame) == PySlice(frame, Len(FRAME_HEADER), Len(frame))

\* frame[header_len : len(frame) - footer_len]
FramePayload(frame) ==
    PySlice(frame, Len(FRAME_HEADER), Len(frame) - Len(FRAME_FOOTER))

\* parse_frame(frame): (m1, m2, s1, s2, dir_m1, dir_m2), or the ValueError
\* raised when the payload is not 9 bytes long.  Neither the header byte nor
\* the footer byte is looked at.
parse_frame(frame) ==
    LET payload == FramePayload(frame)
    IN  IF Len(payload) # PayloadLen
        THEN [ok |-> FALSE, err |-> "ValueError", val |-> <<>>]
        ELSE LET m1 == UnpackU16BE(SubSeq(payload, 1, 2))
                 m2 == UnpackU16BE(SubSeq(payload, 3, 4))
                 s1 == UnpackU16BE(SubSeq(payload, 5, 6))
                 s2 == UnpackU16BE(SubSeq(payload, 7, 8))
                 dir_byte == payload[9]
                 dir_m1 == PyBool(PyAnd1(dir_byte))
                 dir_m2 == PyBool(PyAnd2(dir_byte))
             IN  [ok |-> TRUE, err |-> "", val |-> <<m1, m2, s1, s2, dir_m1, dir_m2>>]

(***************************************************************************)
(* receiver.py: main_listen_loop                                           *)
(***************************************************************************)
ReadMax == 64
FloodCeiling == 2048

FloodGuard_Never(b) == FALSE

\* len(buf) > 2048
FloodGuard(b) == Len(b) > FloodCeiling

NeedMore_OffByOne(b, idx) == Len(b) - idx <= frame_len
NeedMore_Short(b, idx) == Len(b) - idx < frame_len - 1

\* len(buf) - idx < frame_len
NeedMore(b, idx) == Len(b) - idx < frame_len

DelPrefix_Keep(b, n) == b
DelPrefix_OneMore(b, n) == PySlice(b, n + 1, Len(b))
DelPrefix_OneLess(b, n) == PySlice(b, n - 1, Len(b))

\* del buf[:n]
DelPrefix(b, n) == PySlice(b, n, Len(b))

ProcessBuffer_GuardFirst(b) ==
    LET idx == PyFind(b, FRAME_HEADER)
        candidate == PySlice(b, idx, idx + frame_len)
    IN  IF FloodGuard(b)
        THEN [buf |-> <<>>, out |-> <<>>, last |-> "clear", idx |-> idx]
        ELSE IF idx = -1
        THEN [buf |-> b, out |-> <<>>, last |-> "nohdr", idx |-> idx]
        ELSE IF NeedMore(b, idx)
        THEN [buf |-> b, out |-> <<>>, last |-> "wait", idx |-> idx]
        ELSE IF ~PyEndsWith(candidate, FRAME_FOOTER)
        THEN [buf |-> DelPrefix(b, idx + 1), out |-> <<>>, last |-> "discard",
              idx |-> idx]
        ELSE [buf |-> DelPrefix(b, idx + frame_len),
              out |-> <<[raw |-> candidate, res |-> parse_frame(candidate)]>>,
              last |-> "emit", idx |-> idx]

\* One pass of the loop body below the read, on the buffer b the chunk was
\* appended to.  Every branch ends the iteration (continue, or the end of the
\* body), so the next thing the loop does is ser.read again.
\*   buf  : the buffer the iteration leaves
\*   out  : what it reported (at most one candidate)
\*   last : the branch it took
\*   idx  : where it found the first header byte in b, -1 when nowhere
ProcessBuffer(b) ==
    LET idx == PyFind(b, FRAME_HEADER)
        candidate == PySlice(b, idx, idx + frame_len)
    IN  IF idx = -1
        THEN IF FloodGuard(b)
             THEN [buf |-> <<>>, out |-> <<>>, last |-> "clear", idx |-> idx]
             ELSE [buf |-> b, out |-> <<>>, last |-> "nohdr", idx |-> idx]
        ELSE IF NeedMore(b, idx)
        THEN [buf |-> b, out |-> <<>>, last |-> "wait", idx |-> idx]
        ELSE IF ~PyEndsWith(candidate, FRAME_FOOTER)
        THEN [buf |-> DelPrefix(b, idx + 1), out |-> <<>>, last |-> "discard",
              idx |-> idx]
        ELSE [buf |-> DelPrefix(b, idx + frame_len),
              out |-> <<[raw |-> candidate, res |-> parse_frame(candidate)]>>,
              last |-> "emit", idx |-> idx]

\* chunk = ser.read(64) returned n > 0 bytes: buf.extend(chunk), then one pass
\* of the loop body.
ReadChunk ==
    /\ pos < Len(input)
    /\ \E n \in { Min(Min(k, ReadMax), Len(input) - pos) : k \in sizes } :
       \E r \in { ProcessBuffer(buf \o SubSeq(input, pos + 1, pos + n)) } :
             /\ n > 0
             /\ pos' = pos + n
             /\ buf' = r.buf
             /\ emitted' = emitted \o r.out
             /\ last' = r.last
             /\ cleared' = IF r.last = "clear" THEN cleared + 1 ELSE cleared
             /\ ends' = IF r.last = "emit"
                        THEN Append(ends, pos - Len(buf) + r.idx + frame_len)
                        ELSE ends
    /\ UNCHANGED <<input, sizes, codecvars, txvars>>

\* chunk = ser.read(64) timed out and returned b'': continue.
ReadTimeout ==
    /\ UNCHANGED vars

\* The values reported so far, in order.
EmittedValues == [i \in 1..Len(emitted) |-> emitted[i].res.val]

(***************************************************************************)
(* Input streams of the receiver                                           *)
(***************************************************************************)
MaxGarbage == 2

Rep(k, b) == [i \in 1..k |-> b]

\* Control values whose frames are put on the line: the worked example, and
\* one whose payload bytes are header and footer bytes.
CtlSamples ==
    { <<1000, 1500, 2000, 2500, 0, 1>>,
      <<3360, 8205, 13, 32, 1, 1>> }

Encode(c) == build_packet(c[1], c[2], c[3], c[4], c[5], c[6])

FrameSamples == { Encode(c).frame : c \in CtlSamples }

\* Line noise: runs without a header byte, and runs that begin with a stray
\* header byte; none is long enough to hold header + 9 bytes + footer.
NoHeaderGarbage == { Rep(k, b) : k \in 1..MaxGarbage, b \in {0, 32} }
HeaderGarbage == { <<13>> \o Rep(k, 0) : k \in 0..MaxGarbage }
GarbageSamples == NoHeaderGarbage \cup HeaderGarbage

\* garbage ++ frame ++ garbage ++ frame, every part optional.
ShortStreams ==
    { g1 \o f1 \o g2 \o f2 :
        g1 \in GarbageSamples \cup {<<>>}, f1 \in FrameSamples \cup {<<>>},
        g2 \in GarbageSamples \cup {<<>>}, f2 \in FrameSamples \cup {<<>>} }

\* Streams that are frames back to back and nothing else.
AlignedCases ==
    { [stream |-> Encode(c1).frame \o Encode(c2).frame \o Encode(c3).frame,
       ctls |-> <<c1, c2, c3>>] :
        c1 \in CtlSamples, c2 \in CtlSamples, c3 \in CtlSamples }
AlignedStreams == { x.stream : x \in AlignedCases }

\* No codec call has been made.
NotBuilt == [ok |-> FALSE, err |-> "not called", frame |-> <<>>]
NotParsed == [ok |-> FALSE, err |-> "not called", val |-> <<>>]

CodecIdle ==
    /\ cin = <<>>
    /\ craw = <<>>
    /\ cframe = NotBuilt
    /\ cdec = NotParsed

RxStart ==
    /\ pos = 0
    /\ buf = <<>>
    /\ emitted = <<>>
    /\ last = "start"
    /\ cleared = 0
    /\ ends = <<>>

\* transmitter.py as imported: STATE at its defaults, nothing called or sent.
NoCall ==
    [fn |-> "none", mode |-> "", outcome |-> "", ret |-> <<>>, frame |-> <<>>,
     vals |-> <<>>]
TxIdle ==
    /\ TxState = [m1 |-> 1000, m2 |-> 1500, s1 |-> 1000, s2 |-> 1400, d1 |-> 0, d2 |-> 1]
    /\ given = <<1000, 1500, 1000, 1400, 0, 1>>
    /\ written = <<>>
    /\ tloop = <<>>
    /\ tcall = NoCall
    /\ ncalls = 0

Init ==
    /\ input \in ShortStreams \cup AlignedStreams
    /\ sizes = 1..ReadMax
    /\ RxStart
    /\ CodecIdle
    /\ TxIdle

Next == ReadChunk \/ ReadTimeout

Spec == Init /\ [][Next]_vars

(***************************************************************************)
(* Properties of the receive loop on short streams (Spec)                  *)
(***************************************************************************)
\* The control values a frame encoded from c carries: the magnitudes, and the
\* low bit of each direction flag.
Carried(c) ==
    <<c[1], c[2], c[3], c[4],
      IF c[5] % 2 = 1 THEN 1 ELSE 0, IF c[6] % 2 = 1 THEN 1 ELSE 0>>

\* C1 (Resync): once garbage ++ frame ++ garbage ++ frame2 has been received
\* whole, in any chunking, exactly the two frames' values have been reported,
\* in order.
C1_Resync ==
    \A g1 \in GarbageSamples, g2 \in GarbageSamples :
      \A c1 \in CtlSamples, c2 \in CtlSamples :
        (/\ input = g1 \o Encode(c1).frame \o g2 \o Encode(c2).frame
         /\ pos = Len(input))
        => EmittedValues = <<Carried(c1), Carried(c2)>>

\* C3 (Exhaustive extraction): when the loop is done with a chunk, no further
\* frame can be extracted: the buffer has no header byte, or fewer than 11
\* bytes from its first header byte onward.
C3_ExhaustiveExtraction ==
    LET idx == PyFind(buf, FRAME_HEADER)
    IN  idx = -1 \/ Len(buf) - idx < frame_len

\* C4 (Split-feed equivalence): when the stream is one valid frame, in every
\* chunking nothing is reported and nothing is dropped before its last byte,
\* and with its last byte exactly that frame, decoded, is reported and the
\* buffer is empty.
C4_SplitFeed ==
    input \in FrameSamples =>
      /\ pos < Len(input) => (emitted = <<>> /\ buf = SubSeq(input, 1, pos))
      /\ pos = Len(input) =>
           /\ emitted = <<[raw |-> input, res |-> parse_frame(input)]>>
           /\ emitted[1].res.ok
           /\ buf = <<>>

\* A frame with header and footer bytes in its payload has been received
\* whole and reported.
C4_Witness ==
    /\ input = Encode(<<3360, 8205, 13, 32, 1, 1>>).frame
    /\ pos = Len(input)
    /\ last = "emit"
    /\ Len(emitted) = 1

(***************************************************************************)
(* Long streams: floods (FloodSpec)                                        *)
(***************************************************************************)
FloodExtra == 2
HdrFloodLen == 2304

\* A run of n bytes none of which is the header byte (every other one is the
\* footer byte).
NoHeaderFlood(n) == [i \in 1..n |-> IF i % 2 = 0 THEN 32 ELSE 0]

\* The lengths of the header-free floods: just above the flood ceiling.
FloodLens == { FloodCeiling + k : k \in 1..FloodExtra }

\* A header-free flood longer than the ceiling, then one valid frame.
FloodCases ==
    { [stream |-> NoHeaderFlood(n) \o Encode(c).frame, ctl |-> c] :
        n \in FloodLens, c \in CtlSamples }
FloodThenFrame == { x.stream : x \in FloodCases }

\* A stream made only of header bytes.
HeaderFlood == Rep(HdrFloodLen, 13)

FloodInit ==
    /\ \/ input \in FloodThenFrame /\ sizes = {1, ReadMax}
       \/ input = HeaderFlood /\ sizes = {ReadMax - 1, ReadMax}
    /\ RxStart
    /\ CodecIdle
    /\ TxIdle

FloodSpec == FloodInit /\ [][Next]_vars

\* The largest buffer a loop that extracts exhaustively would ever hold: a
\* header-free backlog up to the ceiling, one more chunk that brings a header
\* in its last byte, and one further chunk.
BufferBound == FloodCeiling + 2 * ReadMax + frame_len

\* C2 (Bounded memory): the buffer never grows beyond a constant fixed by the
\* flood ceiling, the chunk size and the frame length.
C2_BoundedMemory == Len(buf) <= BufferBound

\* C5 (Flood bound): on a header-free flood longer than the ceiling followed
\* by a valid frame, a buffer without a header byte never stays longer than
\* the ceiling, nothing is reported before the frame is complete, and once
\* the frame is complete it has been reported exactly once, with its values,
\* and the buffer is empty.
C5_FloodBound ==
    \A x \in FloodCases :
      input = x.stream =>
        /\ PyFind(buf, FRAME_HEADER) = -1 => Len(buf) <= FloodCeiling
        /\ pos < Len(input) => emitted = <<>>
        /\ pos = Len(input) =>
             /\ Len(emitted) = 1
             /\ emitted[1].res.ok
             /\ emitted[1].res.val = Carried(x.ctl)
             /\ buf = <<>>

\* The flood guard has cleared the buffer, and the frame behind the flood has
\* been reported.
C5_Witness ==
    /\ input \in FloodThenFrame
    /\ cleared >= 1
    /\ pos = Len(input)
    /\ Len(emitted) = 1
    /\ last = "emit"

(***************************************************************************)
(* The codec called directly (CodecSpec)                                   *)
(***************************************************************************)
RawMaxLen == 13

\* Magnitudes: the ends of the range, the values just outside it, byte
\* boundaries, and a value whose two bytes are the header and footer bytes.
MagSamples == {-1, 0, 255, 256, 3360, 65535, 65536}

\* Direction flags: any integer is accepted.
DirSamples == {-2, -1, 0, 1, 2, 255}

CtlInputs ==
    { <<m1, m2, s1, s2, d1, d2>> :
        m1 \in MagSamples, m2 \in MagSamples, s1 \in MagSamples,
        s2 \in MagSamples, d1 \in DirSamples, d2 \in DirSamples }
    \cup CtlSamples

\* Byte strings of every length up to RawMaxLen, with the header byte or
\* another byte first, the footer byte or another byte last, and a filler in
\* between.
RawSamples ==
    { [i \in 1..n |-> IF i = 1 THEN h ELSE IF i = n THEN f ELSE (p * i) % 256] :
        n \in 0..RawMaxLen, h \in {13, 0, 32}, f \in {32, 0, 13},
        p \in {0, 13, 32, 37} }

CodecInit ==
    /\ \/ cin \in CtlInputs /\ craw = <<>>
       \/ cin = <<>> /\ craw \in RawSamples
    /\ cframe = NotBuilt
    /\ cdec = NotParsed
    /\ input = <<>>
    /\ sizes = {}
    /\ RxStart
    /\ TxIdle

\* frame = build_packet(m1, m2, s1, s2, dir1, dir2)
CallBuildPacket ==
    /\ cin # <<>>
    /\ cframe = NotBuilt
    /\ cframe' = Encode(cin)
    /\ UNCHANGED <<cin, craw, cdec, rxvars, txvars>>

\* parse_frame(frame) on the frame build_packet returned
CallParseBuilt ==
    /\ cframe.ok
    /\ cdec = NotParsed
    /\ cdec' = parse_frame(cframe.frame)
    /\ UNCHANGED <<cin, craw, cframe, rxvars, txvars>>

\* parse_frame(craw) on a byte string from elsewhere
CallParseRaw ==
    /\ cin = <<>>
    /\ cdec = NotParsed
    /\ cdec' = parse_frame(craw)
    /\ UNCHANGED <<cin, craw, cframe, rxvars, txvars>>

CodecNext == CallBuildPacket \/ CallParseBuilt \/ CallParseRaw

CodecSpec == CodecInit /\ [][CodecNext]_vars

MagsInRange(c) == \A i \in 1..4 : c[i] >= 0 /\ c[i] <= 65535

\* C6 (Round-trip): decoding the frame encoded from (m1, m2, s1, s2, d1, d2)
\* succeeds and gives (m1, m2, s1, s2, d1 & 1, d2 & 1).
C6_RoundTrip ==
    (cin # <<>> /\ cdec # NotParsed) =>
      /\ cdec.ok
      /\ cdec.val = Carried(cin)

\* A frame from an odd negative and an even direction flag, decoded.
C6_Witness ==
    /\ cin = <<3360, 65535, 0, 256, -1, 2>>
    /\ cdec.ok

\* C7 (Sentinel check): an 11-byte input whose first byte is not 0x0D or
\* whose last byte is not 0x20 is rejected.
C7_SentinelCheck ==
    (/\ cin = <<>>
     /\ cdec # NotParsed
     /\ Len(craw) = 11
     /\ (craw[1] # 13 \/ craw[11] # 32))
    => ~cdec.ok

C10_RangeCheck ==
    cframe # NotBuilt =>
      /\ cframe.ok <=> MagsInRange(cin)
      /\ ~cframe.ok => (cframe.err = "ValueError" /\ cframe.frame = <<>>)

\* A call whose only out-of-range value is s2 = 65536 has failed.
C10_Witness ==
    /\ cin # <<>>
    /\ cin[4] = 65536
    /\ MagsInRange(<<cin[1], cin[2], cin[3], 0>>)
    /\ cframe.err = "ValueError"

(***************************************************************************)
(* Further properties of the receive loop                                  *)
(***************************************************************************)
\* In a step that reads a chunk: the buffer with the chunk appended, which is
\* what the loop body works on.
Fed == buf \o SubSeq(input, pos + 1, pos')

\* C11 (Ordering): every reported frame is the 11-byte window of the stream
\* that ends at its recorded offset, and the offsets grow by at least a frame
\* from one report to the next: frames are reported in the order their footer
\* bytes arrive, and none twice.
C11_Ordering ==
    /\ Len(ends) = Len(emitted)
    /\ \A i \in 1..Len(ends) :
         /\ ends[i] >= frame_len
         /\ ends[i] <= pos
         /\ emitted[i].raw = SubSeq(input, ends[i] - frame_len + 1, ends[i])
    /\ \A i \in 1..Len(ends), j \in 1..Len(ends) :
         i < j => ends[i] + frame_len <= ends[j]

\* Two frames with garbage between them have been reported.
C11_Witness ==
    /\ Len(ends) = 2
    /\ ends[2] > ends[1] + frame_len

\* C12 (No parse error): every candidate handed to parse_frame is 11 bytes
\* long, starts with 0x0D and ends with 0x20, and parse_frame succeeds on it.
C12_NoParseError ==
    \A i \in 1..Len(emitted) :
      /\ Len(emitted[i].raw) = 11
      /\ emitted[i].raw[1] = 13
      /\ emitted[i].raw[11] = 32
      /\ emitted[i].res.ok

\* The stream began with a false header, and a frame behind it was reported.
C12_Witness ==
    /\ Len(emitted) >= 1
    /\ input[1] = 13
    /\ ends[1] > frame_len

\* C15 (False-header discard): when the first header byte is at idx, at least
\* 11 bytes follow from idx and the byte at idx+10 is not the footer, the pass
\* removes exactly the first idx+1 bytes, keeps the rest as it is and reports
\* nothing.
C15_FalseHeaderDiscard ==
    [][pos' > pos =>
        \A b \in {Fed} : \A idx \in {PyFind(b, FRAME_HEADER)} :
            (idx # -1 /\ Len(b) - idx >= 11 /\ b[idx + 11] # 32) =>
              /\ buf' = SubSeq(b, idx + 2, Len(b))
              /\ emitted' = emitted]_vars

\* A false header was discarded and bytes behind it are still in the buffer.
C15_Witness ==
    /\ last = "discard"
    /\ buf # <<>>
    /\ emitted = <<>>

\* C16 (Incomplete frame is kept): when the buffer with the chunk appended has
\* a header byte and fewer than 11 bytes from the first one onward, the pass
\* leaves exactly that buffer and reports nothing, whatever its length.
C16_IncompleteKept ==
    [][pos' > pos =>
        \A b \in {Fed} : \A idx \in {PyFind(b, FRAME_HEADER)} :
            (idx # -1 /\ Len(b) - idx < 11) =>
              /\ buf' = b
              /\ emitted' = emitted]_vars

\* The loop waits on an incomplete frame with more than 2048 bytes buffered.
C16_Witness ==
    /\ last = "wait"
    /\ Len(buf) > FloodCeiling

\* C17 (Termination and progress): the one pass made for a chunk reports a
\* frame and removes at least 11 bytes, or drops at least one byte and reports
\* nothing, or leaves the buffer as it is and waits; what is left is always a
\* tail of what was there.
C17_Progress ==
    [][pos' > pos =>
        \A b \in {Fed} :
            /\ Len(b) >= 1
            /\ buf' = SubSeq(b, Len(b) - Len(buf') + 1, Len(b))
            /\ \/ /\ last' = "emit"
                  /\ Len(emitted') = Len(emitted) + 1
                  /\ Len(buf') <= Len(b) - 11
               \/ /\ last' \in {"discard", "clear"}
                  /\ emitted' = emitted
                  /\ Len(buf') < Len(b)
               \/ /\ last' \in {"wait", "nohdr"}
                  /\ emitted' = emitted
                  /\ buf' = b]_vars

\* A pass dropped a false header from a buffer of more than one chunk.
C17_Witness ==
    /\ last = "discard"
    /\ Len(buf) > ReadMax

\* C18 (Aligned stream stays aligned): on a stream that is valid frames back
\* to back, what has been reported is always the first frames' values in
\* order, and the bytes removed from the buffer are exactly those frames.
C18_Aligned ==
    \A x \in AlignedCases :
      input = x.stream =>
        /\ Len(emitted) <= Len(x.ctls)
        /\ \A i \in 1..Len(emitted) :
             /\ emitted[i].res.ok
             /\ emitted[i].res.val = Carried(x.ctls[i])
        /\ pos - Len(buf) = frame_len * Len(emitted)

\* Three frames reported, the middle one with header and footer bytes in its
\* payload.
C18_Witness ==
    /\ input \in AlignedStreams
    /\ Len(emitted) = 3
    /\ emitted[2].res.val = <<3360, 8205, 13, 32, 1, 1>>

(***************************************************************************)
(* transmitter.py: STATE, _update_state, motor, servo;                     *)
(* lib3360.py: send_control                                                *)
(* An optional argument is <<>> for None and <<v>> for the value v.        *)
(***************************************************************************)
MaxCalls == 2
MaxWrites == 2

HexDigits ==
    <<"0", "1", "2", "3", "4", "5", "6", "7", "8", "9", "a", "b", "c", "d", "e", "f">>

\* b.hex(): two lowercase hex digits per byte, high nibble first.
PyHex(b) ==
    [i \in 1..(2 * Len(b)) |->
        IF i % 2 = 1 THEN HexDigits[(b[(i + 1) \div 2] \div 16) + 1]
                     ELSE HexDigits[(b[i \div 2] % 16) + 1]]

\* (STATE['m1'], STATE['m2'], STATE['s1'], STATE['s2'], STATE['d1'], STATE['d2'])
StateTuple(S) == <<S.m1, S.m2, S.s1, S.s2, S.d1, S.d2>>

UpdateState_CopyPaste(S, a) ==
    [m1 |-> IF a.m1 # <<>> THEN a.m1[1] ELSE S.m1,
     m2 |-> IF a.m1 # <<>> THEN a.m1[1] ELSE S.m2,
     s1 |-> IF a.s1 # <<>> THEN a.s1[1] ELSE S.s1,
     s2 |-> IF a.s2 # <<>> THEN a.s2[1] ELSE S.s2,
     d1 |-> IF a.d1 # <<>> THEN (IF PyAnd1(a.d1[1]) # 0 THEN 1 ELSE 0) ELSE S.d1,
     d2 |-> IF a.d2 # <<>> THEN (IF PyAnd1(a.d2[1]) # 0 THEN 1 ELSE 0) ELSE S.d2]

\* _update_state(m1, m2, s1, s2, d1, d2) on STATE = S: every argument that is
\* not None is stored, whatever its value (int(v) of an int is v).
UpdateState(S, a) ==
    [m1 |-> IF a.m1 # <<>> THEN a.m1[1] ELSE S.m1,
     m2 |-> IF a.m2 # <<>> THEN a.m2[1] ELSE S.m2,
     s1 |-> IF a.s1 # <<>> THEN a.s1[1] ELSE S.s1,
     s2 |-> IF a.s2 # <<>> THEN a.s2[1] ELSE S.s2,
     d1 |-> IF a.d1 # <<>> THEN (IF PyAnd1(a.d1[1]) # 0 THEN 1 ELSE 0) ELSE S.d1,
     d2 |-> IF a.d2 # <<>> THEN (IF PyAnd1(a.d2[1]) # 0 THEN 1 ELSE 0) ELSE S.d2]

\* mode in ('once', 'loop', 'hex')
ModeOk(mode) == mode \in {"once", "loop", "hex"}

SendMode_HexWrites(mode, v) ==
    LET p == Encode(v)
    IN  IF ~p.ok
        THEN [outcome |-> "ValueError", ret |-> <<>>, frame |-> <<>>,
              write |-> <<>>, loop |-> <<>>]
        ELSE IF mode = "hex"
        THEN [outcome |-> "return", ret |-> PyHex(p.frame), frame |-> p.frame,
              write |-> <<p.frame>>, loop |-> <<>>]
        ELSE IF mode = "once"
        THEN [outcome |-> "return", ret |-> <<>>, frame |-> p.frame,
              write |-> <<p.frame>>, loop |-> <<>>]
        ELSE [outcome |-> "looping", ret |-> <<>>, frame |-> p.frame,
              write |-> <<>>, loop |-> p.frame]

\* What a call does with an accepted mode and the six values v:
\*   'hex'  : build_packet, return frame.hex()
\*   'once' : send_control_command: build_packet, one ser.write, return None
\*   'loop' : send_control_loop: build_packet, then ser.write again and again
\* In each, build_packet comes first and its ValueError ends the call.
SendMode(mode, v) ==
    LET p == Encode(v)
    IN  IF ~p.ok
        THEN [outcome |-> "ValueError", ret |-> <<>>, frame |-> <<>>,
              write |-> <<>>, loop |-> <<>>]
        ELSE IF mode = "hex"
        THEN [outcome |-> "return", ret |-> PyHex(p.frame), frame |-> p.frame,
              write |-> <<>>, loop |-> <<>>]
        ELSE IF mode = "once"
        THEN [outcome |-> "return", ret |-> <<>>, frame |-> p.frame,
              write |-> <<p.frame>>, loop |-> <<>>]
        ELSE [outcome |-> "looping", ret |-> <<>>, frame |-> p.frame,
              write |-> <<>>, loop |-> p.frame]

\* The call raised ValueError at its mode check, before anything else.
BadMode(fn, mode) ==
    /\ tcall' = [fn |-> fn, mode |-> mode, outcome |-> "ValueError",
                 ret |-> <<>>, frame |-> <<>>, vals |-> <<>>]
    /\ UNCHANGED <<TxState, given, written, tloop>>

\* The rest of motor() / servo() once the mode is accepted: _update_state with
\* the arguments a, then the mode's branch on the values STATE now holds.
UpdateAndSend(fn, mode, a) ==
    \E S \in { UpdateState(TxState, a) } :
    \E r \in { SendMode(mode, StateTuple(S)) } :
      /\ TxState' = S
      /\ given' = [i \in 1..6 |->
                     LET x == <<a.m1, a.m2, a.s1, a.s2, a.d1, a.d2>>[i]
                     IN  IF x # <<>> THEN x[1] ELSE given[i]]
      /\ written' = written \o r.write
      /\ tloop' = r.loop
      /\ tcall' = [fn |-> fn, mode |-> mode, outcome |-> r.outcome,
                   ret |-> r.ret, frame |-> r.frame, vals |-> StateTuple(S)]

Modes == {"once", "loop", "hex", "burst"}
MagArgs == {<<>>, <<3000>>, <<65536>>}
MagArgs2 == {<<>>, <<50000>>}
ServoArgs == {<<>>, <<2000>>, <<-1>>}
Dir1Args == {<<>>, <<3>>}
Dir2Args == {<<>>, <<2>>}
SendSamples ==
    { <<1000, 1500, 1000, 1400, 0, 1>>, <<2000, 50000, 13, 32, 3, 2>>,
      <<65536, 0, 0, 0, 0, 0>> }

\* No call is running and another one may be made.
CanCall == tloop = <<>> /\ ncalls < MaxCalls

\* motor(m1, m2, dir1, dir2, mode)
Motor ==
    /\ CanCall
    /\ ncalls' = ncalls + 1
    /\ \E m1 \in MagArgs, m2 \in MagArgs2, dir1 \in Dir1Args, dir2 \in Dir2Args,
          mode \in Modes :
         IF ~ModeOk(mode)
         THEN BadMode("motor", mode)
         ELSE UpdateAndSend("motor", mode,
                [m1 |-> m1, m2 |-> m2, s1 |-> <<>>, s2 |-> <<>>,
                 d1 |-> dir1, d2 |-> dir2])
    /\ UNCHANGED <<rxvars, codecvars>>

\* servo(s1, s2, mode)
Servo ==
    /\ CanCall
    /\ ncalls' = ncalls + 1
    /\ \E s1 \in ServoArgs, s2 \in MagArgs2, mode \in Modes :
         IF ~ModeOk(mode)
         THEN BadMode("servo", mode)
         ELSE UpdateAndSend("servo", mode,
                [m1 |-> <<>>, m2 |-> <<>>, s1 |-> s1, s2 |-> s2,
                 d1 |-> <<>>, d2 |-> <<>>])
    /\ UNCHANGED <<rxvars, codecvars>>

\* lib3360.send_control(m1, m2, s1, s2, dir1, dir2, mode): STATE is not used.
SendControl ==
    /\ CanCall
    /\ ncalls' = ncalls + 1
    /\ \E v \in SendSamples, mode \in Modes :
         IF ~ModeOk(mode)
         THEN BadMode("send_control", mode)
         ELSE \E r \in { SendMode(mode, v) } :
                /\ written' = written \o r.write
                /\ tloop' = r.loop
                /\ tcall' = [fn |-> "send_control", mode |-> mode,
                             outcome |-> r.outcome, ret |-> r.ret,
                             frame |-> r.frame, vals |-> v]
                /\ UNCHANGED <<TxState, given>>
    /\ UNCHANGED <<rxvars, codecvars>>

\* send_control_loop: sent = ser.write(frame), once more.
LoopWrite ==
    /\ tloop # <<>>
    /\ Len(written) < MaxWrites
    /\ written' = Append(written, tloop)
    /\ UNCHANGED <<TxState, given, tloop, tcall, ncalls, rxvars, codecvars>>

\* send_control_loop: KeyboardInterrupt ends the loop and the call returns.
LoopInterrupt ==
    /\ tloop # <<>>
    /\ tloop' = <<>>
    /\ tcall' = [tcall EXCEPT !.outcome = "return"]
    /\ UNCHANGED <<TxState, given, written, ncalls, rxvars, codecvars>>

TxInit ==
    /\ TxIdle
    /\ input = <<>>
    /\ sizes = {}
    /\ RxStart
    /\ CodecIdle

TxNext == Motor \/ Servo \/ SendControl \/ LoopWrite \/ LoopInterrupt

TxSpec == TxInit /\ [][TxNext]_vars

(***************************************************************************)
(* Properties of motor, servo and send_control (TxSpec)                    *)
(***************************************************************************)
LowBit(d) == IF d % 2 = 1 THEN 1 ELSE 0

\* The bytes a string of hex digits stands for.
FromHex(h) ==
    LET val(ch) == CHOOSE k \in 0..15 : HexDigits[k + 1] = ch
    IN  [i \in 1..(Len(h) \div 2) |-> 16 * val(h[2 * i - 1]) + val(h[2 * i])]

\* STATE holds, for each field, the latest non-None value an accepted
\* motor()/servo() call passed for it, or its default when none was passed
\* (directions reduced to their low bit), and the frame such a call has built
\* is the frame of those values.
LatestGiven ==
    /\ TxState.m1 = given[1]
    /\ TxState.m2 = given[2]
    /\ TxState.s1 = given[3]
    /\ TxState.s2 = given[4]
    /\ TxState.d1 = LowBit(given[5])
    /\ TxState.d2 = LowBit(given[6])
    /\ ncalls = 0 => StateTuple(TxState) = <<1000, 1500, 1000, 1400, 0, 1>>
    /\ (tcall.fn \in {"motor", "servo"} /\ tcall.frame # <<>>) =>
         /\ tcall.frame = Encode(given).frame
         /\ parse_frame(tcall.frame).val =
              <<given[1], given[2], given[3], given[4],
                LowBit(given[5]), LowBit(given[6])>>

\* C13 (State memory): a parameter passed as None keeps its value in STATE;
\* motor() leaves s1, s2 unchanged and servo() leaves m1, m2, d1, d2
\* unchanged; so after any sequence of calls STATE, and the frame built from
\* it, hold the most recent non-None value given for each field, or the
\* default 1000, 1500, 1000, 1400, 0, 1 if none was given.
C13_StateMemory ==
    /\ LatestGiven
    /\ [][/\ LatestGiven'
          /\ (ncalls' = ncalls + 1 /\ tcall'.fn = "motor") =>
               (TxState'.s1 = TxState.s1 /\ TxState'.s2 = TxState.s2)
          /\ (ncalls' = ncalls + 1 /\ tcall'.fn = "servo") =>
               /\ TxState'.m1 = TxState.m1 /\ TxState'.m2 = TxState.m2
               /\ TxState'.d1 = TxState.d1 /\ TxState'.d2 = TxState.d2
          /\ ncalls' = ncalls => TxState' = TxState]_vars

\* motor(3000, None, 3, None) and then servo(2000, None) have been
\* called: m2, s2 and d2 are still the defaults, m1 is what motor() was given,
\* and servo() has built a frame.
C13_Witness ==
    /\ ncalls = 2
    /\ tcall.fn = "servo"
    /\ tcall.frame # <<>>
    /\ TxState.m1 = 3000
    /\ TxState.m2 = 1500
    /\ TxState.s1 = 2000
    /\ TxState.s2 = 1400
    /\ TxState.d1 = 1
    /\ TxState.d2 = 1

C19_FailedCallKeepsState ==
    [][ncalls' = ncalls + 1 =>
        /\ (tcall'.fn \in {"motor", "servo"} /\ tcall'.outcome = "ValueError") =>
             TxState' = TxState
        /\ MagsInRange(StateTuple(TxState'))]_vars

====
